---- MODULE Spec2Model ----
(***************************************************************************)
(* Model of the Solana token account burn-and-close tool (src/main.rs).    *)
(* One run of main: parse the key, list the wallet's token accounts, scan  *)
(* them into burn/close instructions, then process the instruction list in *)
(* batches of at most max_instructions, one transaction per batch.         *)
(* The RPC node is the environment: every RPC call picks its outcome       *)
(* nondeterministically.  The variable log records, per call of            *)
(* process_instruction_batch, what was handed to the RPC node.             *)
(***************************************************************************)
EXTENDS Integers, Sequences, FiniteSets, TLC

\* ---------------------------------------------------------------- bounds
MaxAccounts == 2
MaxAmount == 1
MaxM == 3
UsizeBits == 4

\* the batching loop is cut once MaxStalled calls more than instructions
\* processed have been made (a call with a ceiling >= 1 advances by at least
\* one instruction, so only a loop that does not advance reaches the cut)
MaxStalled == 1

UsizeMod == 2 ^ UsizeBits

\* ------------------------------------------------------------- constants
USDC_MINT == "EPjFWdd5AufqSSqeM2qN1xzybapC8G4wEGGkZwyTDt1v"
SPL_TOKEN_PROGRAM_ID == "TokenkegQfeZyiNwAJbNbGKPFXCWuBvf9Ss623VQ5DA"
DefaultComputeUnitPrice == 220000
DefaultComputeUnitLimit == 350000

\* Mint public keys of the model: the USDC mint and the BONK mint.
\* Pubkey::to_string is the base58 text of the key.
Mints == {"usdc_key", "bonk_key"}

PubkeyToString(k) ==
    CASE k = "usdc_key" -> "EPjFWdd5AufqSSqeM2qN1xzybapC8G4wEGGkZwyTDt1v"
      [] k = "bonk_key" -> "DezXAZ8z7PnrnRJjz3wXBoRgixCa6xjnB7YaB1pPB263"
      [] k = "token_program" -> "TokenkegQfeZyiNwAJbNbGKPFXCWuBvf9Ss623VQ5DA"
      [] OTHER -> k

\* The wallet (keypair.pubkey()) and the token program (spl_token::id()).
Owner == "owner"
TokenProgram == "token_program"
ComputeBudgetProgram == "compute_budget_program"
NoKey == "none"

\* A raw account as the RPC node returns it: data that unpacks to
\* (mint, amount), or data that does not unpack.
AccountData ==
    [valid : {TRUE}, mint : Mints, amount : 0..MaxAmount]
      \cup [valid : {FALSE}, mint : {NoKey}, amount : {0}]

RECURSIVE SeqsUpTo(_, _)
SeqsUpTo(S, n) ==
    IF n = 0 THEN {<<>>}
    ELSE LET shorter == SeqsUpTo(S, n - 1)
         IN shorter \cup {Append(s, x) : s \in {t \in shorter : Len(t) = n - 1}, x \in S}

\* --skip-usdc is a bool field: a flag that takes no value and sets true when
\* present, with default_value "true" when absent (lines 31-33).  Every
\* command line Args::parse() accepts gives true.
DefaultSkipUsdc == TRUE
ParseSkipUsdc(flag_present) == IF flag_present THEN TRUE ELSE DefaultSkipUsdc
SkipUsdcValues == {ParseSkipUsdc(present) : present \in BOOLEAN}

\* Values of --max-instructions: small ceilings, 0, and the largest usize.
MaxInstructionValues == 0..MaxM \cup {UsizeMod - 1}

Min(a, b) == IF a < b THEN a ELSE b

\* ------------------------------------------------------------ instructions
Instr(program, kind, account, mint, authority, destination, amount) ==
    [program |-> program, kind |-> kind, account |-> account, mint |-> mint,
     authority |-> authority, destination |-> destination, amount |-> amount]

\* spl_token::instruction::burn(program, account, mint, authority, [], amount)
burn(program, account, mint, authority, amount) ==
    Instr(program, "burn", account, mint, authority, NoKey, amount)

\* spl_token::instruction::close_account(program, account, destination, owner, [])
close_account(program, account, destination, authority) ==
    Instr(program, "close", account, NoKey, authority, destination, 0)

set_compute_unit_price(price) ==
    Instr(ComputeBudgetProgram, "set_compute_unit_price", 0, NoKey, NoKey, NoKey, price)

set_compute_unit_limit(limit) ==
    Instr(ComputeBudgetProgram, "set_compute_unit_limit", 0, NoKey, NoKey, NoKey, limit)

NoTransaction == [instructions |-> <<>>, payer |-> NoKey, signed |-> FALSE]

\* ------------------------------------------------------------------ state
VARIABLES
    private_key_ok,          \* does --private-key decode to a keypair
    skip_usdc,               \* --skip-usdc
    max_instructions,        \* --max-instructions
    compute_unit_price,      \* --compute-unit-price
    compute_unit_limit,      \* --compute-unit-limit
    ledger_accounts,         \* what the node holds for the wallet: Seq(AccountData)
    pc,                      \* position of the run
    result,                  \* "Running", "Ok" or the error main returns
    token_accounts,          \* the list get_token_accounts_by_owner returned
    scan_index,              \* position of the for loop over token_accounts
    instructions,            \* the instruction list of the scan
    accounts_processed,
    processed_instructions,
    end_index,
    batch_instructions,      \* the slice handed to process_instruction_batch
    transaction,             \* the transaction of the current batch
    call_result,             \* what process_instruction_batch returns
    log                      \* one record per call of process_instruction_batch

args == <<private_key_ok, skip_usdc, max_instructions, compute_unit_price,
          compute_unit_limit, ledger_accounts>>
scan_vars == <<token_accounts, scan_index, instructions, accounts_processed>>
loop_vars == <<processed_instructions, end_index, batch_instructions>>
vars == <<private_key_ok, skip_usdc, max_instructions, compute_unit_price,
          compute_unit_limit, ledger_accounts, pc, result, token_accounts,
          scan_index, instructions, accounts_processed, processed_instructions,
          end_index, batch_instructions, transaction, call_result, log>>

Init ==
    /\ private_key_ok \in BOOLEAN
    /\ skip_usdc \in SkipUsdcValues
    /\ max_instructions \in MaxInstructionValues
    /\ compute_unit_price = DefaultComputeUnitPrice
    /\ compute_unit_limit = DefaultComputeUnitLimit
    /\ ledger_accounts \in SeqsUpTo(AccountData, MaxAccounts)
    /\ pc = "main"
    /\ result = "Running"
    /\ token_accounts = <<>>
    /\ scan_index = 0
    /\ instructions = <<>>
    /\ accounts_processed = 0
    /\ processed_instructions = 0
    /\ end_index = 0
    /\ batch_instructions = <<>>
    /\ transaction = NoTransaction
    /\ call_result = "None"
    /\ log = <<>>

\* main returns: Ok(()) or the error, nothing else changes
Return(r) ==
    /\ pc' = "done"
    /\ result' = r

\* main, lines 52-67: parse_private_key(&args.private_key)?
ParsePrivateKey ==
    /\ pc = "main"
    /\ IF private_key_ok
         THEN pc' = "fetch" /\ result' = result
         ELSE Return("KeyError")
    /\ UNCHANGED <<args, scan_vars, loop_vars, transaction, call_result, log>>

\* get_token_accounts_by_owner(..).context(..)? and the is_empty return
GetTokenAccounts ==
    /\ pc = "fetch"
    /\ \E ok \in BOOLEAN :
         IF ~ok
           THEN Return("FetchError") /\ UNCHANGED <<token_accounts, scan_index>>
           ELSE /\ token_accounts' = ledger_accounts
                /\ IF ledger_accounts = <<>>
                     THEN Return("Ok") /\ scan_index' = scan_index
                     ELSE pc' = "scan" /\ scan_index' = 1 /\ result' = result
    /\ UNCHANGED <<args, instructions, accounts_processed, loop_vars,
                   transaction, call_result, log>>

\* fault of the decoding: malformed data is taken as an account
unpackAnything(account) == TRUE

\* TokenAccount::unpack(&account.data): Ok for well-formed data
unpack(account) == account.valid

\* faults of the filter: the test inverted; the wrong constant compared
IsSkippedNegated(skip, mint) == skip /\ PubkeyToString(mint) # USDC_MINT
IsSkippedWrongConstant(skip, mint) == skip /\ PubkeyToString(mint) = SPL_TOKEN_PROGRAM_ID

\* line 128: skip_usdc && token_account_data.mint.to_string() == USDC_MINT
IsSkipped(skip, mint) == skip /\ PubkeyToString(mint) = USDC_MINT

\* fault of the balance test: a burn for every account
NeedsBurnAlways(amount) == amount >= 0

\* line 134: token_account_data.amount > 0
NeedsBurn(amount) == amount > 0

\* line 146: the burn takes the whole balance of the snapshot
BurnAmount(amount) == amount

\* fault of the emission order: the close pushed before the burn
AccountInstructionsCloseFirst(pubkey, data) ==
    <<close_account(TokenProgram, pubkey, Owner, Owner)>>
    \o (IF NeedsBurn(data.amount)
          THEN <<burn(TokenProgram, pubkey, data.mint, Owner, BurnAmount(data.amount))>>
          ELSE <<>>)

\* lines 134-162: the instructions one surviving account contributes
AccountInstructions(pubkey, data) ==
    (IF NeedsBurn(data.amount)
       THEN <<burn(TokenProgram, pubkey, data.mint, Owner, BurnAmount(data.amount))>>
       ELSE <<>>)
    \o <<close_account(TokenProgram, pubkey, Owner, Owner)>>

\* one iteration of the for loop over token_accounts, lines 123-164; the
\* address of the account at position i of the list is i
ScanAccount ==
    /\ pc = "scan"
    /\ scan_index <= Len(token_accounts)
    /\ LET pubkey == scan_index
           account == token_accounts[scan_index]
       IN IF ~unpack(account)
            THEN /\ Return("DecodeError")
                 /\ UNCHANGED <<scan_index, instructions, accounts_processed>>
            ELSE /\ pc' = pc
                 /\ result' = result
                 /\ scan_index' = scan_index + 1
                 /\ IF IsSkipped(skip_usdc, account.mint)
                      THEN UNCHANGED <<instructions, accounts_processed>>
                      ELSE /\ instructions' = instructions \o AccountInstructions(pubkey, account)
                           /\ accounts_processed' = accounts_processed + 1
    /\ UNCHANGED <<args, token_accounts, loop_vars, transaction, call_result, log>>

\* lines 166-174: the list is complete; return when it is empty
ScanFinished ==
    /\ pc = "scan"
    /\ scan_index > Len(token_accounts)
    /\ IF instructions = <<>>
         THEN Return("Ok") /\ UNCHANGED processed_instructions
         ELSE pc' = "loop" /\ result' = result /\ processed_instructions' = 0
    /\ UNCHANGED <<args, scan_vars, end_index, batch_instructions,
                   transaction, call_result, log>>

\* fault of the loop test: the last instruction is left out
LoopConditionStopsEarly(processed, len) == processed + 1 < len

\* fault of the loop test: the loop goes on at the end of the list
LoopConditionInclusive(processed, len) == processed <= len

\* line 175: while processed_instructions < instructions.len()
LoopCondition(processed, len) == processed < len

\* fault of the batch end: one instruction too many per batch
EndIndexOffByOne(processed, m, len) == Min((processed + m + 1) % UsizeMod, len)

\* fault of the batch end: the ceiling taken from the head of the list
EndIndexFromZero(processed, m, len) == Min(m % UsizeMod, len)

\* lines 176-179: min(processed_instructions + max_instructions, len), in usize
EndIndex(processed, m, len) == Min((processed + m) % UsizeMod, len)

\* faults of the slice: the last instruction of the range is left out; the
\* range starts at the head of the list
SliceDropsLast(list, from, to) == SubSeq(list, from + 1, to - 1)
SliceFromStart(list, from, to) == SubSeq(list, 1, to)

\* line 181: &instructions[from..to]
Slice(list, from, to) == SubSeq(list, from + 1, to)

\* lines 174-200 with every batch succeeding: the batches the loop hands
\* out for a list, from position processed on
RECURSIVE BatchesFrom(_, _, _)
BatchesFrom(list, m, processed) ==
    IF LoopCondition(processed, Len(list))
      THEN LET e == EndIndex(processed, m, Len(list))
           IN <<Slice(list, processed, e)>> \o BatchesFrom(list, m, e)
      ELSE <<>>

Batches(list, m) == BatchesFrom(list, m, 0)

NewLogEntry(batch) ==
    [batch |-> batch, tx_instructions |-> <<>>, blockhash_calls |-> 0,
     signed |-> FALSE, sim_calls |-> 0, sim |-> "none", send_calls |-> 0,
     sent |-> NoTransaction, simulated |-> NoTransaction, state |-> "Building"]

\* lines 175-196: loop test, the slice, and the call of process_instruction_batch
LoopHead ==
    /\ pc = "loop"
    /\ Len(log) <= processed_instructions + MaxStalled
    /\ IF LoopCondition(processed_instructions, Len(instructions))
         THEN LET e == EndIndex(processed_instructions, max_instructions, Len(instructions))
              IN /\ end_index' = e
                 /\ IF processed_instructions > e
                      THEN \* slice index starts after its end: panic
                           /\ Return("Panic")
                           /\ UNCHANGED <<batch_instructions, log>>
                      ELSE /\ batch_instructions' = Slice(instructions, processed_instructions, e)
                           /\ log' = Append(log, NewLogEntry(batch_instructions'))
                           /\ pc' = "build"
                           /\ result' = result
         ELSE /\ Return("Ok")
              /\ UNCHANGED <<end_index, batch_instructions, log>>
    /\ UNCHANGED <<args, scan_vars, processed_instructions, transaction, call_result>>

\* the record of the call in progress
Cur == Len(log)
Logged(field, value) == [log EXCEPT ![Cur] = [@ EXCEPT ![field] = value]]

\* fault of the assembly: the compute budget instructions after the batch
TransactionInstructionsAppended(batch, price, limit) ==
    batch \o <<set_compute_unit_price(price), set_compute_unit_limit(limit)>>

\* lines 212-223: the two compute budget instructions, then the batch
TransactionInstructions(batch, price, limit) ==
    <<set_compute_unit_price(price), set_compute_unit_limit(limit)>> \o batch

BuildTransaction ==
    /\ pc = "build"
    /\ transaction' = [instructions |-> TransactionInstructions(batch_instructions,
                                           compute_unit_price, compute_unit_limit),
                       payer |-> NoKey, signed |-> FALSE]
    /\ log' = Logged("tx_instructions", transaction'.instructions)
    /\ pc' = "blockhash"
    /\ UNCHANGED <<args, scan_vars, loop_vars, result, call_result>>

\* process_instruction_batch returns Err(e)
Fail(e) ==
    /\ call_result' = e
    /\ pc' = "batch_return"

\* lines 226-228: get_latest_blockhash().context(..)?
GetLatestBlockhash ==
    /\ pc = "blockhash"
    /\ \E ok \in BOOLEAN :
         IF ok
           THEN /\ pc' = "sign"
                /\ call_result' = call_result
                /\ log' = Logged("blockhash_calls", log[Cur].blockhash_calls + 1)
           ELSE /\ Fail("AnchorFetchError")
                /\ log' = [Logged("blockhash_calls", log[Cur].blockhash_calls + 1)
                             EXCEPT ![Cur].state = "Aborted"]
    /\ UNCHANGED <<args, scan_vars, loop_vars, result, transaction>>

\* fault of the sequence: the signed transaction goes to send-and-confirm
\* without the simulation
SignTransactionSkipsSimulation ==
    /\ pc = "sign"
    /\ transaction' = [transaction EXCEPT !.payer = Owner, !.signed = TRUE]
    /\ log' = [Logged("signed", TRUE) EXCEPT ![Cur].state = "Signed"]
    /\ pc' = "send"
    /\ UNCHANGED <<args, scan_vars, loop_vars, result, call_result>>

\* lines 230-235: new_with_payer(.., Some(&keypair.pubkey())) and sign
SignTransaction ==
    /\ pc = "sign"
    /\ transaction' = [transaction EXCEPT !.payer = Owner, !.signed = TRUE]
    /\ log' = [Logged("signed", TRUE) EXCEPT ![Cur].state = "Signed"]
    /\ pc' = "simulate"
    /\ UNCHANGED <<args, scan_vars, loop_vars, result, call_result>>

\* outcomes of rpc_client.simulate_transaction: Ok with value.err = None,
\* Ok with value.err = Some(err), or Err(e)
SimulationOutcomes == {"ok", "onchain_err", "rpc_err"}

\* faults of the simulation match: no outcome aborts; every failure aborts
SimulationNeverFatal(outcome) == FALSE
SimulationCallErrorFatal(outcome) == outcome # "ok"

\* lines 239-248: only Ok(result) with result.value.err = Some(..) returns Err
SimulationIsFatal(outcome) == outcome = "onchain_err"

\* lines 238-249
SimulateTransaction ==
    /\ pc = "simulate"
    /\ \E outcome \in SimulationOutcomes :
         LET seen == [log EXCEPT ![Cur].sim_calls = @ + 1,
                                 ![Cur].sim = outcome,
                                 ![Cur].simulated = transaction]
         IN IF SimulationIsFatal(outcome)
              THEN /\ Fail("SimulationFailure")
                   /\ log' = [seen EXCEPT ![Cur].state = "Aborted"]
              ELSE /\ pc' = "send"
                   /\ call_result' = call_result
                   /\ log' = [seen EXCEPT ![Cur].state =
                                 IF outcome = "ok" THEN "SimulatedOk" ELSE "SimulatedSkip"]
    /\ UNCHANGED <<args, scan_vars, loop_vars, result, transaction>>

\* lines 252-265: send_and_confirm_transaction(&transaction).context(..)?
SendAndConfirm ==
    /\ pc = "send"
    /\ \E ok \in BOOLEAN :
         LET seen == [log EXCEPT ![Cur].send_calls = @ + 1,
                                 ![Cur].sent = transaction]
         IN IF ok
              THEN /\ call_result' = "Ok"
                   /\ pc' = "batch_return"
                   /\ log' = [seen EXCEPT ![Cur].state = "Confirmed"]
              ELSE /\ Fail("SubmissionError")
                   /\ log' = [seen EXCEPT ![Cur].state = "Aborted"]
    /\ UNCHANGED <<args, scan_vars, loop_vars, result, transaction>>

\* faults of the error propagation: the result is dropped; only the
\* simulation failure is propagated
PropagatesNever(r) == FALSE
PropagatesOnlySimulation(r) == r = "SimulationFailure"

\* fault of the error propagation: only the anchor fetch error is propagated
PropagatesOnlyAnchor(r) == r = "AnchorFetchError"

\* line 197: the ? after .await lets the loop go on only after Ok(())
Propagates(r) == r # "Ok"

\* lines 197-199: process_instruction_batch(..).await? and the advance
BatchReturn ==
    /\ pc = "batch_return"
    /\ IF Propagates(call_result)
         THEN /\ Return(call_result)
              /\ UNCHANGED processed_instructions
         ELSE /\ processed_instructions' = end_index
              /\ pc' = "loop"
              /\ result' = result
    /\ call_result' = "None"
    /\ transaction' = NoTransaction
    /\ UNCHANGED <<args, scan_vars, end_index, batch_instructions, log>>

Next ==
    \/ ParsePrivateKey
    \/ GetTokenAccounts
    \/ ScanAccount
    \/ ScanFinished
    \/ LoopHead
    \/ BuildTransaction
    \/ GetLatestBlockhash
    \/ SignTransaction
    \/ SimulateTransaction
    \/ SendAndConfirm
    \/ BatchReturn

Spec == Init /\ [][Next]_vars

\* The run is one sequential task: a step that can be taken is taken, and
\* every RPC call returns.
FairSpec == Spec /\ WF_vars(Next)

\* Runs with every value of --max-instructions from 1 to the largest usize
\* and a key that parses.
WideInit ==
    /\ private_key_ok = TRUE
    /\ skip_usdc \in SkipUsdcValues
    /\ max_instructions \in 1..(UsizeMod - 1)
    /\ compute_unit_price = DefaultComputeUnitPrice
    /\ compute_unit_limit = DefaultComputeUnitLimit
    /\ ledger_accounts \in SeqsUpTo(AccountData, MaxAccounts)
    /\ pc = "main"
    /\ result = "Running"
    /\ token_accounts = <<>>
    /\ scan_index = 0
    /\ instructions = <<>>
    /\ accounts_processed = 0
    /\ processed_instructions = 0
    /\ end_index = 0
    /\ batch_instructions = <<>>
    /\ transaction = NoTransaction
    /\ call_result = "None"
    /\ log = <<>>

WideSpec == WideInit /\ [][Next]_vars

TypeOK ==
    /\ pc \in {"main", "fetch", "scan", "loop", "build", "blockhash", "sign",
               "simulate", "send", "batch_return", "done"}
    /\ result \in {"Running", "Ok", "KeyError", "FetchError", "DecodeError",
                   "AnchorFetchError", "SimulationFailure", "SubmissionError", "Panic"}
    /\ (pc = "done") = (result # "Running")
    /\ processed_instructions \in 0..Len(instructions)
    /\ end_index \in 0..Len(instructions)

\* ------------------------------------------------------------- properties
Calls == 1..Len(log)

RECURSIVE Concat(_)
Concat(lists) ==
    IF lists = <<>> THEN <<>> ELSE Head(lists) \o Concat(Tail(lists))

HandedBatches == [k \in Calls |-> log[k].batch]

CeilDiv(a, b) == (a + b - 1) \div b

IsPrefix(s, t) == Len(s) <= Len(t) /\ s = SubSeq(t, 1, Len(s))

\* C1: with max_instructions M >= 1 the batches handed to the submitter are
\* each of size <= M and their concatenation is a prefix of the scanned list;
\* when the run returns Ok (every batch succeeded) there are exactly
\* ceil(L/M) of them and the concatenation is the whole list.
C1_LosslessPartition ==
    max_instructions >= 1 =>
      /\ \A k \in Calls : Len(log[k].batch) <= max_instructions
      /\ IsPrefix(Concat(HandedBatches), instructions)
      /\ (pc = "done" /\ result = "Ok") =>
           /\ Len(log) = CeilDiv(Len(instructions), max_instructions)
           /\ Concat(HandedBatches) = instructions

C1_Witness ==
    /\ pc = "done" /\ result = "Ok"
    /\ max_instructions = 3
    /\ Len(instructions) = 4
    /\ Len(log) = 2
    /\ Len(log[1].batch) = 3 /\ Len(log[2].batch) = 1

\* C2: once a batch has failed (anchor fetch error, simulation-reported
\* error or send-and-confirm error) it is the last batch of the run: no
\* later batch exists, nothing more is done, and the run returns that error.
C2_HaltOnFirstFailure ==
    \A k \in Calls :
      log[k].state = "Aborted" =>
        /\ k = Len(log)
        /\ pc \in {"batch_return", "done"}
        /\ pc = "batch_return" =>
             call_result \in {"AnchorFetchError", "SimulationFailure", "SubmissionError"}
        /\ pc = "done" =>
             result \in {"AnchorFetchError", "SimulationFailure", "SubmissionError"}

C2_Witness ==
    /\ pc = "done"
    /\ result = "SubmissionError"
    /\ Len(log) = 1
    /\ log[1].state = "Aborted"
    /\ end_index < Len(instructions)

\* C3: a batch whose simulation reported an on-chain error is never passed
\* to send-and-confirm, it is the last batch of the run, and the run returns
\* the simulation failure.
C3_SimulationErrorNotSubmitted ==
    \A k \in Calls :
      log[k].sim = "onchain_err" =>
        /\ log[k].send_calls = 0
        /\ log[k].sent = NoTransaction
        /\ log[k].state = "Aborted"
        /\ k = Len(log)
        /\ pc \in {"batch_return", "done"}
        /\ pc = "done" => result = "SimulationFailure"

C3_Witness ==
    /\ pc = "done"
    /\ max_instructions = 1
    /\ Len(instructions) = 3
    /\ Len(log) = 2
    /\ log[1].send_calls = 1 /\ log[1].state = "Confirmed"
    /\ log[2].sim = "onchain_err" /\ log[2].send_calls = 0

\* C4: a batch whose simulation call returned an RPC error is not aborted by
\* it: its transaction is the next thing sent, and the very transaction that
\* was handed to the simulation is the one handed to send-and-confirm.
C4_SimulationCallErrorNonFatal ==
    \A k \in Calls :
      log[k].sim = "rpc_err" =>
        \/ /\ k = Len(log)
           /\ pc = "send"
           /\ log[k].state = "SimulatedSkip"
           /\ log[k].send_calls = 0
        \/ /\ log[k].send_calls = 1
           /\ log[k].sent = log[k].simulated
           /\ log[k].sent.signed

C4_Witness ==
    /\ Len(log) = 2
    /\ log[1].sim = "rpc_err"
    /\ log[1].state = "Confirmed"
    /\ log[2].state = "Building"

\* C5: every batch before the current one is Confirmed, so at most one batch
\* is in a non-terminal state and a batch is started only after its
\* predecessor was confirmed.
C5_StrictlySequential ==
    /\ \A k \in Calls : k < Len(log) => log[k].state = "Confirmed"
    /\ Cardinality({k \in Calls : log[k].state \notin {"Confirmed", "Aborted"}}) <= 1

C5_Witness ==
    /\ Len(log) = 3
    /\ log[3].state = "Signed"
    /\ pc = "simulate"

\* the instructions of the batches that reached Confirmed
ConfirmedInstructions ==
    UNION {{log[k].sent.instructions[j] : j \in 1..Len(log[k].sent.instructions)} :
             k \in {c \in Calls : log[c].state = "Confirmed"}}

ClosedAndBurned(i) ==
    /\ \E x \in ConfirmedInstructions : x.kind = "close" /\ x.account = i
    /\ token_accounts[i].amount > 0 =>
         \E x \in ConfirmedInstructions :
           x.kind = "burn" /\ x.account = i /\ x.amount = token_accounts[i].amount

FilteredOut(i) == skip_usdc /\ token_accounts[i].mint = "usdc_key"

\* C6 as stated: main returns Ok only if every discovered account has its
\* close (and its burn when balance > 0) in a confirmed batch and every
\* batch reached Confirmed.
C6_ExitZeroOnlyIfAllProcessed ==
    (pc = "done" /\ result = "Ok") =>
      /\ \A i \in 1..Len(token_accounts) : token_accounts[i].valid /\ ClosedAndBurned(i)
      /\ \A k \in Calls : log[k].state = "Confirmed"

\* C6 amended: main returns Ok only if every discovered account that
\* skip_usdc does not filter out has its close (and its burn when balance
\* > 0) in a confirmed batch and every batch reached Confirmed; a failed
\* key parse, undecodable account or aborted batch never ends in Ok.
C6_ExitZeroOnlyIfAllUnfilteredProcessed ==
    (pc = "done" /\ result = "Ok") =>
      /\ private_key_ok
      /\ \A i \in 1..Len(token_accounts) :
           /\ token_accounts[i].valid
           /\ ~FilteredOut(i) => ClosedAndBurned(i)
      /\ \A k \in Calls : log[k].state = "Confirmed"

C6_Witness ==
    /\ pc = "done" /\ result = "Ok"
    /\ skip_usdc
    /\ Len(token_accounts) = 2
    /\ token_accounts[1].mint = "usdc_key" /\ token_accounts[1].amount = 1
    /\ token_accounts[2].mint = "bonk_key" /\ token_accounts[2].amount = 1
    /\ Len(log) = 2

\* positions of the instruction list that name account i
PositionsOf(i) == {p \in 1..Len(instructions) : instructions[p].account = i}

\* C7: every account the scan has passed contributes, when not filtered
\* out, exactly one close when its balance is 0 and exactly a burn of the
\* full balance immediately followed by the close when its balance is > 0;
\* the accounts appear in the order of the returned list.
C7_ScanEmission ==
    /\ \A i \in 1..Len(token_accounts) :
         IF i < scan_index /\ ~FilteredOut(i)
           THEN IF token_accounts[i].amount = 0
                  THEN \E p \in 1..Len(instructions) :
                         /\ PositionsOf(i) = {p}
                         /\ instructions[p] =
                              Instr(TokenProgram, "close", i, NoKey, Owner, Owner, 0)
                  ELSE \E p \in 1..Len(instructions) :
                         /\ PositionsOf(i) = {p, p + 1}
                         /\ instructions[p] =
                              Instr(TokenProgram, "burn", i, token_accounts[i].mint,
                                    Owner, NoKey, token_accounts[i].amount)
                         /\ instructions[p + 1] =
                              Instr(TokenProgram, "close", i, NoKey, Owner, Owner, 0)
           ELSE PositionsOf(i) = {}
    /\ \A p, q \in 1..Len(instructions) :
         p < q => instructions[p].account <= instructions[q].account
    /\ \A p \in 1..Len(instructions) : instructions[p].account \in 1..Len(token_accounts)

C7_Witness ==
    /\ pc = "loop"
    /\ Len(token_accounts) = 2
    /\ token_accounts[1].amount = 1
    /\ token_accounts[2].amount = 0
    /\ Len(instructions) = 3

\* every instruction the run holds or has handed to the RPC node
AllInstructionLists ==
    {instructions, batch_instructions, transaction.instructions}
      \cup {log[k].batch : k \in Calls}
      \cup {log[k].tx_instructions : k \in Calls}
      \cup {log[k].simulated.instructions : k \in Calls}
      \cup {log[k].sent.instructions : k \in Calls}

\* C8: with skip_usdc set, no burn or close of an account whose mint is the
\* USDC mint is in the instruction list, in a batch or in a transaction.
C8_SkipUsdc ==
    skip_usdc =>
      \A list \in AllInstructionLists : \A p \in 1..Len(list) :
        list[p].kind \in {"burn", "close"} =>
          token_accounts[list[p].account].mint # "usdc_key"

C8_Witness ==
    /\ skip_usdc
    /\ pc = "done" /\ result = "Ok"
    /\ Len(token_accounts) = 2
    /\ token_accounts[1].mint = "bonk_key"
    /\ token_accounts[2].mint = "usdc_key" /\ token_accounts[2].amount = 1
    /\ Len(log) = 1
    /\ log[1].state = "Confirmed"

\* C9 as stated: with max_instructions = 0 the batching stage is never
\* entered: no batch is handed to process_instruction_batch, no transaction
\* is built, simulated or submitted, and a run with instructions to process
\* does not end in Ok.
C9_ZeroMaxInstructionsRejected ==
    max_instructions = 0 =>
      /\ pc \notin {"loop", "build", "blockhash", "sign", "simulate", "send",
                    "batch_return"}
      /\ log = <<>>
      /\ transaction = NoTransaction
      /\ (pc = "done" /\ instructions # <<>>) => result # "Ok"

\* the code with max_instructions = 0: an empty batch is sent as a
\* transaction of the two compute budget instructions, and the loop stays
\* at processed_instructions = 0
C9_EmptyBatchSubmitted ==
    /\ max_instructions = 0
    /\ Len(log) = 2
    /\ log[1].batch = <<>> /\ log[1].state = "Confirmed"
    /\ Len(log[1].sent.instructions) = 2
    /\ log[2].batch = <<>>
    /\ processed_instructions = 0

\* no account, or every account decodable and filtered out by skip_usdc
NothingToProcess ==
    \A i \in 1..Len(ledger_accounts) :
      /\ ledger_accounts[i].valid
      /\ skip_usdc
      /\ ledger_accounts[i].mint = "usdc_key"

\* C10: when the wallet has no token account or every account is filtered
\* out by skip_usdc, process_instruction_batch is never called (no anchor
\* fetch, no simulation, no send) and the run, once the key is parsed and
\* the accounts are listed, returns Ok.
C10_EmptyListSucceeds ==
    NothingToProcess =>
      /\ log = <<>>
      /\ instructions = <<>>
      /\ transaction = NoTransaction
      /\ pc \in {"main", "fetch", "scan", "done"}
      /\ pc = "done" => result \in {"Ok", "KeyError", "FetchError"}
      /\ result = "KeyError" => ~private_key_ok

C10_Witness ==
    /\ pc = "done" /\ result = "Ok"
    /\ Len(token_accounts) = 2
    /\ skip_usdc
    /\ log = <<>>

\* the first account of the node's list whose data does not unpack, or 0
FirstMalformed ==
    IF \E i \in 1..Len(ledger_accounts) : ~ledger_accounts[i].valid
      THEN CHOOSE i \in 1..Len(ledger_accounts) :
             /\ ~ledger_accounts[i].valid
             /\ \A j \in 1..(i - 1) : ledger_accounts[j].valid
      ELSE 0

\* C11: a failed account listing, or one account that does not decode, ends
\* the run with an error before any batching: no batch is handed out and no
\* transaction is built, simulated or sent, also when earlier accounts
\* decoded; the scan never goes past a malformed account.
C11_ScanFailureFatal ==
    /\ result \in {"FetchError", "DecodeError"} =>
         /\ log = <<>>
         /\ transaction = NoTransaction
    /\ result = "FetchError" => token_accounts = <<>> /\ instructions = <<>>
    /\ FirstMalformed # 0 =>
         /\ log = <<>>
         /\ transaction = NoTransaction
         /\ pc \in {"main", "fetch", "scan", "done"}
         /\ scan_index <= FirstMalformed
         /\ \A p \in 1..Len(instructions) : instructions[p].account < FirstMalformed
         /\ pc = "done" => result \in {"KeyError", "FetchError", "DecodeError"}
         /\ (pc = "done" /\ token_accounts # <<>>) => result = "DecodeError"

C11_Witness ==
    /\ pc = "done"
    /\ result = "DecodeError"
    /\ Len(token_accounts) = 2
    /\ token_accounts[1].valid /\ ~token_accounts[2].valid
    /\ Len(instructions) = 2
    /\ log = <<>>

\* C12: for max_instructions M >= 1, batching the concatenation of the
\* batches of the instruction list again with M gives the same batches, and
\* so does batching the concatenation of the batches a successful run handed
\* to the submitter.
C12_BatchingIdempotent ==
    max_instructions >= 1 =>
      /\ Batches(Concat(Batches(instructions, max_instructions)), max_instructions)
           = Batches(instructions, max_instructions)
      /\ (pc = "done" /\ result = "Ok") =>
           Batches(Concat(HandedBatches), max_instructions) = HandedBatches

C12_Witness ==
    /\ pc = "done" /\ result = "Ok"
    /\ max_instructions = 2
    /\ Len(instructions) = 3
    /\ Len(log) = 2
    /\ Len(log[2].batch) = 1
    /\ Batches(Concat(HandedBatches), 2) = <<log[1].batch, log[2].batch>>

\* C13 as stated: every batch handed to process_instruction_batch holds at
\* least 1 and at most max_instructions instructions, whatever value of
\* max_instructions the program was started with.
C13_BatchSizeInRange ==
    \A k \in Calls :
      /\ 1 <= Len(log[k].batch)
      /\ Len(log[k].batch) <= max_instructions

\* the code with max_instructions = 0: the empty batch is built into a
\* transaction, simulated and sent
C13_EmptyBatchProcessed ==
    /\ max_instructions = 0
    /\ Len(log) = 1
    /\ log[1].batch = <<>>
    /\ log[1].sim_calls = 1
    /\ log[1].send_calls = 1

\* C14: the transaction handed to the simulation, and the one handed to
\* send-and-confirm, is the signed transaction of exactly
\* set-compute-unit-price(compute_unit_price),
\* set-compute-unit-limit(compute_unit_limit) and then the batch's
\* instructions in order (batch size + 2 instructions); the transaction sent
\* is the one simulated.
C14_TransactionShape ==
    \A k \in Calls :
      LET expected ==
            [instructions |->
               <<Instr(ComputeBudgetProgram, "set_compute_unit_price", 0, NoKey, NoKey,
                       NoKey, compute_unit_price),
                 Instr(ComputeBudgetProgram, "set_compute_unit_limit", 0, NoKey, NoKey,
                       NoKey, compute_unit_limit)>> \o log[k].batch,
             payer |-> Owner, signed |-> TRUE]
      IN /\ log[k].sim_calls > 0 =>
              /\ log[k].simulated = expected
              /\ Len(log[k].simulated.instructions) = Len(log[k].batch) + 2
         /\ log[k].send_calls > 0 =>
              /\ log[k].sent = expected
              /\ log[k].sent = log[k].simulated

C14_Witness ==
    /\ Len(log) = 2
    /\ log[1].state = "Confirmed" /\ Len(log[1].sent.instructions) = 4
    /\ log[2].state = "Confirmed" /\ Len(log[2].sent.instructions) = 3
    /\ log[1].sent.instructions[1] = log[2].sent.instructions[1]
    /\ log[1].sent.instructions[2] = log[2].sent.instructions[2]

\* the steps of a batch; Submitted is the time inside the one call
\* send_and_confirm_transaction, which ends in Confirmed or Aborted
BatchSteps ==
    {<<"Building", "Building">>, <<"Building", "Signed">>, <<"Building", "Aborted">>,
     <<"Signed", "SimulatedOk">>, <<"Signed", "SimulatedSkip">>, <<"Signed", "Aborted">>,
     <<"SimulatedOk", "Confirmed">>, <<"SimulatedOk", "Aborted">>,
     <<"SimulatedSkip", "Confirmed">>, <<"SimulatedSkip", "Aborted">>,
     <<"Confirmed", "Confirmed">>, <<"Aborted", "Aborted">>}

C15_Order ==
    \A k \in Calls :
      /\ log[k].signed => log[k].blockhash_calls = 1
      /\ log[k].sim_calls > 0 => log[k].signed
      /\ log[k].state \in {"SimulatedOk", "SimulatedSkip"} => log[k].sim_calls = 1
      /\ log[k].send_calls > 0 =>
           /\ log[k].signed
           /\ log[k].sim_calls = 1
           /\ log[k].sim \in {"ok", "rpc_err"}
      /\ log[k].state = "Confirmed" => log[k].send_calls = 1

C15_Step ==
    /\ \A k \in Calls :
         /\ k <= Len(log')
         /\ <<log[k].state, log'[k].state>> \in BatchSteps
         /\ log[k].state \in {"Confirmed", "Aborted"} => log'[k] = log[k]
    /\ \A k \in 1..Len(log') : k > Len(log) => log'[k].state = "Building"

\* C15: a batch starts in Building and moves only along Building -> Signed
\* -> Simulated (ok or advisory skip) -> Confirmed, or from any of these to
\* Aborted; Confirmed and Aborted are never left; it is signed only after
\* an anchor fetch and sent only after it was signed and a simulation was
\* attempted.
C15_BatchStateMachine == [](C15_Order) /\ [][C15_Step]_vars

C15_Witness ==
    /\ Len(log) = 2
    /\ log[1].state = "Confirmed" /\ log[1].sim = "rpc_err"
    /\ log[2].state = "Aborted" /\ log[2].sim = "ok" /\ log[2].send_calls = 1

\* the burn and close instructions of the transaction call k sent
SentInstructions(k) ==
    {log[k].sent.instructions[j] : j \in 1..Len(log[k].sent.instructions)}
      \ {x \in {log[k].sent.instructions[j] : j \in 1..Len(log[k].sent.instructions)} :
           x.program = ComputeBudgetProgram}

\* C16: in every call of process_instruction_batch the anchor fetch, the
\* simulation and the send-and-confirm are each made at most once, whatever
\* their outcomes, and no instruction of the list is in the transactions of
\* two calls: nothing is sent a second time.
C16_NoRetries ==
    /\ \A k \in Calls :
         /\ log[k].blockhash_calls <= 1
         /\ log[k].sim_calls <= 1
         /\ log[k].send_calls <= 1
         /\ log[k].state = "Aborted" => pc \in {"batch_return", "done"}
    /\ \A k1, k2 \in Calls :
         k1 < k2 => SentInstructions(k1) \cap SentInstructions(k2) = {}

C16_Witness ==
    /\ pc = "done"
    /\ result = "SubmissionError"
    /\ Len(log) = 2
    /\ log[1].send_calls = 1 /\ log[1].state = "Confirmed"
    /\ log[2].blockhash_calls = 1 /\ log[2].sim_calls = 1 /\ log[2].send_calls = 1
    /\ log[2].state = "Aborted"

ConfirmedCalls == {k \in Calls : log[k].state = "Confirmed"}

C17_Prefix ==
    /\ \A k \in ConfirmedCalls : \A j \in 1..k : j \in ConfirmedCalls
    /\ IsPrefix(Concat([k \in 1..Cardinality(ConfirmedCalls) |-> log[k].batch]),
                instructions)
    /\ (pc = "done" /\ result \in {"AnchorFetchError", "SimulationFailure",
                                    "SubmissionError"}) =>
         /\ log # <<>>
         /\ log[Len(log)].state = "Aborted"
         /\ ConfirmedCalls = 1..(Len(log) - 1)

C17_Kept ==
    \A k \in ConfirmedCalls : k <= Len(log') /\ log'[k] = log[k]

\* C17: the confirmed batches are always the first batches of the run, in
\* order; when the run aborts at batch k exactly batches 1..k-1 are
\* confirmed and batch k is not; a confirmed batch stays confirmed, and
\* unchanged, in every later state.
C17_ConfirmedPrefix == [](C17_Prefix) /\ [][C17_Kept]_vars

C17_Witness ==
    /\ pc = "done"
    /\ result = "AnchorFetchError"
    /\ Len(log) = 3
    /\ log[1].state = "Confirmed" /\ log[2].state = "Confirmed"
    /\ log[3].state = "Aborted"
    /\ end_index < Len(instructions)

C18_CallsBounded ==
    max_instructions >= 1 =>
      /\ Len(log) <= CeilDiv(Len(instructions), max_instructions)
      /\ (pc = "done" /\ result = "Ok" /\ instructions # <<>>) =>
           processed_instructions = Len(instructions)

C18_Advances ==
    (max_instructions >= 1 /\ pc = "batch_return" /\ pc' = "loop") =>
      /\ processed_instructions' > processed_instructions
      /\ processed_instructions' <= Len(instructions)

\* C18: with max_instructions M >= 1 and every network call returning, the
\* run ends; process_instruction_batch is called at most ceil(L/M) times; and
\* every completed iteration of the loop strictly increases
\* processed_instructions, up to the length of the list.
C18_Terminates ==
    /\ [](C18_CallsBounded)
    /\ [][C18_Advances]_vars
    /\ (max_instructions >= 1 => <>(pc = "done"))

C18_Witness ==
    /\ pc = "done" /\ result = "Ok"
    /\ max_instructions = 1
    /\ Len(instructions) = 4
    /\ Len(log) = 4
    /\ processed_instructions = 4

\* does the transaction call k sent hold x at a position before position q
SentBefore(k, x, q) ==
    \E j \in 1..Len(log[k].sent.instructions) :
      j < q /\ log[k].sent.instructions[j] = x

\* C19: whenever the close of an account with balance > 0 is in a confirmed
\* transaction, the burn of its full balance is in a confirmed transaction
\* too: earlier in the same transaction, or in the transaction of an earlier
\* batch.
C19_BurnBeforeClose ==
    \A k \in ConfirmedCalls : \A q \in 1..Len(log[k].sent.instructions) :
      LET x == log[k].sent.instructions[q]
      IN (x.kind = "close" /\ token_accounts[x.account].amount > 0) =>
           LET b == Instr(TokenProgram, "burn", x.account,
                          token_accounts[x.account].mint, Owner, NoKey,
                          token_accounts[x.account].amount)
           IN \/ SentBefore(k, b, q)
              \/ \E j \in ConfirmedCalls :
                   j < k /\ SentBefore(j, b, Len(log[j].sent.instructions) + 1)

\* a batch boundary between the burn and the close of one account: the burn
\* confirmed, the close in the batch that failed
C19_Witness ==
    /\ pc = "done"
    /\ max_instructions = 1
    /\ Len(token_accounts) = 1
    /\ token_accounts[1].amount = 1
    /\ Len(log) = 2
    /\ log[1].state = "Confirmed" /\ log[1].batch[1].kind = "burn"
    /\ log[2].state = "Aborted" /\ log[2].batch[1].kind = "close"

\* C20: for every max_instructions from 1 to the largest usize, at every
\* test of the loop that enters the body the sum processed_instructions +
\* max_instructions is below 2^w (no overflow) and processed_instructions <
\* end_index <= L; the slice taken is instructions[processed..end_index] and
\* the run never panics.
C20_NoOverflow ==
    max_instructions \in 1..(UsizeMod - 1) =>
      /\ (pc = "loop" /\ LoopCondition(processed_instructions, Len(instructions))) =>
           /\ processed_instructions + max_instructions < UsizeMod
           /\ processed_instructions
                < EndIndex(processed_instructions, max_instructions, Len(instructions))
           /\ EndIndex(processed_instructions, max_instructions, Len(instructions))
                <= Len(instructions)
      /\ pc \in {"build", "blockhash", "sign", "simulate", "send", "batch_return"} =>
           /\ processed_instructions < end_index
           /\ end_index <= Len(instructions)
           /\ end_index = Min(processed_instructions + max_instructions, Len(instructions))
           /\ batch_instructions =
                [j \in 1..(end_index - processed_instructions) |->
                   instructions[processed_instructions + j]]
      /\ result # "Panic"

C20_Witness ==
    /\ pc = "build"
    /\ max_instructions = UsizeMod - 1
    /\ Len(instructions) = 4
    /\ processed_instructions = 0
    /\ end_index = 4
====
